---- MODULE Spec2Model ----
(***************************************************************************)
(* Model of dbgcmd::Console (src/src/lib.rs): the state of a debug         *)
(* console -- the text being entered, the history of confirmed entries,    *)
(* the cursor into that history and the visibility flag -- and its public  *)
(* methods.  Strings are sequences of characters; the history VecDeque is  *)
(* a sequence whose first element is the front (index 0 of the code is     *)
(* index 1 here).  Option<usize> is a sequence of length 0 (None) or 1     *)
(* (Some(n)).                                                              *)
(*                                                                         *)
(* Every method is a pure operator from the console (a record `self`) and  *)
(* its arguments to a record [self, ret, panic]: the console after the     *)
(* call, the returned value, and whether the call panicked (an index out   *)
(* of range, an arithmetic overflow with overflow checks on).  One action  *)
(* per method applies it to the state.                                     *)
(***************************************************************************)
EXTENDS Integers, Sequences, FiniteSets, TLC

\* ------------------------------------------------------------------ bounds

\* most characters the console may hold, the entry and the history together
MaxChars == 3
\* most entries the history may hold
MaxHist == 3
\* most consecutive calls of up() (or of down()) that are counted
MaxStreak == 3

\* the characters that are typed: a digit and a letter
Chars == {"1", "a"}

\* the texts passed to set_entry, receive_text and receive_text_if: the
\* empty text, one character, two characters
Texts == {<<>>, <<"a">>, <<"1", "a">>}

\* ------------------------------------------------------------------ state

VARIABLES
    enabled,          \* cfg(any(debug_assertions, feature = "force-enabled"))
    shown,            \* Console::shown
    entry,            \* Console::entry
    history,          \* Console::history, front first
    cursor,           \* Console::cursor
    panicked,         \* a call has panicked: the program is over
    op,               \* the method called last
    arg,              \* its argument
    ret,              \* what it returned
    pre,              \* the console before that call
    streak,           \* consecutive calls of up() (of down()) and where they began
    typed,            \* the entry a run of receive calls began with, and what it received
    cleared,          \* clear() was called while browsing, and only down() since
    trip,             \* the texts left by up_deduped calls, to come back to by down_deduped
    draft             \* the entry field of the Live console a run of navigation calls began on

vars == <<enabled, shown, entry, history, cursor,
          panicked, op, arg, ret, pre, streak, typed, cleared,
          trip, draft>>

\* ------------------------------------------------------------------ values

None == <<>>
Some(n) == <<n>>
is_some(c) == c # None

\* the unit value () of a method that returns nothing
Unit == "()"
\* the value of a call that did not return
Diverged == "panic"

Ok(self, r) == [self |-> self, ret |-> r, panic |-> FALSE]
Panic(self) == [self |-> self, ret |-> Diverged, panic |-> TRUE]

\* Console::default()
Console_default ==
    [shown |-> FALSE, entry |-> <<>>, history |-> <<>>, cursor |-> None]

Self == [shown |-> shown, entry |-> entry, history |-> history, cursor |-> cursor]

\* <usize as FromStr>::from_str, the parser of the repository's tests: a
\* non-empty text of digits parses to its value, anything else is an error
Parse(text) ==
    IF text = <<>> THEN [ok |-> FALSE, err |-> "Empty"]
    ELSE IF \E i \in 1..Len(text) : text[i] # "1"
         THEN [ok |-> FALSE, err |-> "InvalidDigit"]
         ELSE [ok |-> TRUE, val |-> text]

\* ------------------------------------------------------------------ methods

\* &self.history[n] panics when n is out of range
Console_entry(self) ==
    IF self.cursor = None THEN Ok(self, self.entry)
    ELSE IF self.cursor[1] < Len(self.history)
         THEN Ok(self, self.history[self.cursor[1] + 1])
         ELSE Panic(self)

Console_history_len(self) == Len(self.history)

\* self.history.iter().map(String::as_ref), collected
Console_history(self) == Ok(self, self.history)

\* a dedup that drops every entry equal to an earlier one, adjacent or not
RECURSIVE Dedup_all(_)
Dedup_all(h) ==
    IF h = <<>> THEN h
    ELSE LET rest == Dedup_all(SubSeq(h, 1, Len(h) - 1))
             last == h[Len(h)]
         IN  IF \E i \in 1..Len(h) - 1 : h[i] = last THEN rest
             ELSE Append(rest, last)

\* Itertools::dedup: of consecutive equal items only the first is yielded
RECURSIVE Dedup(_)
Dedup(h) ==
    IF Len(h) <= 1 THEN h
    ELSE IF h[1] = h[2] THEN Dedup(Tail(h))
         ELSE <<h[1]>> \o Dedup(Tail(h))

Console_history_deduped(self) == Ok(self, Dedup(self.history))

\* confirm with the entry pushed at the back of the history
Console_confirm_push_back(self) ==
    LET e == Console_entry(self)
    IN  IF e.panic THEN Panic(self)
        ELSE Ok([self EXCEPT !.history = Append(@, self.entry),
                             !.entry = <<>>,
                             !.cursor = None],
                Parse(e.ret))

\* confirm that returns a parse error early, before the entry is committed
Console_confirm_early_return(self) ==
    LET e == Console_entry(self)
    IN  IF e.panic THEN Panic(self)
        ELSE IF ~Parse(e.ret).ok THEN Ok(self, Parse(e.ret))
        ELSE Ok([self EXCEPT !.history = <<self.entry>> \o @,
                             !.entry = <<>>,
                             !.cursor = None],
                Parse(e.ret))

\* confirm that commits the displayed text instead of the entry field
Console_confirm_push_displayed(self) ==
    LET e == Console_entry(self)
    IN  IF e.panic THEN Panic(self)
        ELSE Ok([self EXCEPT !.history = <<e.ret>> \o @,
                             !.entry = <<>>,
                             !.cursor = None],
                Parse(e.ret))

Console_confirm(self) ==
    LET e == Console_entry(self)
    IN  IF e.panic THEN Panic(self)
        ELSE Ok([self EXCEPT !.history = <<self.entry>> \o @,
                             !.entry = <<>>,
                             !.cursor = None],
                Parse(e.ret))

\* set_entry that leaves the cursor where it is
Console_set_entry_keeps_cursor(self, text) ==
    Ok([self EXCEPT !.entry = text], Unit)

Console_set_entry(self, text) ==
    Ok([self EXCEPT !.entry = text, !.cursor = None], Unit)

\* an edit while browsing that leaves the entry field as it was
Fork_no_copy(self) ==
    IF is_some(self.cursor)
    THEN LET e == Console_entry(self)
         IN  IF e.panic THEN Panic(self)
             ELSE Ok([self EXCEPT !.cursor = None], Unit)
    ELSE Ok(self, Unit)

\* if self.cursor.is_some() { self.entry = self.entry().to_owned(); self.cursor = None; }
Fork(self) ==
    IF is_some(self.cursor)
    THEN LET e == Console_entry(self)
         IN  IF e.panic THEN Panic(self)
             ELSE Ok([self EXCEPT !.entry = e.ret, !.cursor = None], Unit)
    ELSE Ok(self, Unit)

Console_receive_char(self, ch) ==
    LET f == Fork(self)
    IN  IF f.panic THEN f
        ELSE Ok([f.self EXCEPT !.entry = Append(@, ch)], Unit)

\* receive_text that puts the text in front of the entry
Console_receive_text_prepend(self, text) ==
    LET f == Fork(self)
    IN  IF f.panic THEN f
        ELSE Ok([f.self EXCEPT !.entry = text \o @], Unit)

Console_receive_text(self, text) ==
    LET f == Fork(self)
    IN  IF f.panic THEN f
        ELSE Ok([f.self EXCEPT !.entry = @ \o text], Unit)

\* receive_char_if that forks the browsed entry before it asks the filter
Console_receive_char_if_fork_first(self, ch, accept) ==
    LET f == Fork(self)
    IN  IF f.panic THEN f
        ELSE IF accept
             THEN Ok([f.self EXCEPT !.entry = Append(@, ch)], accept)
             ELSE Ok(f.self, accept)

Console_receive_char_if(self, ch, accept) ==
    IF accept
    THEN LET r == Console_receive_char(self, ch)
         IN  IF r.panic THEN r ELSE Ok(r.self, accept)
    ELSE Ok(self, accept)

Console_receive_text_if(self, text, accept) ==
    IF accept
    THEN LET r == Console_receive_text(self, text)
         IN  IF r.panic THEN r ELSE Ok(r.self, accept)
    ELSE Ok(self, accept)

\* String::pop removes the last character, if any
Pop(s) == IF s = <<>> THEN s ELSE SubSeq(s, 1, Len(s) - 1)

\* backspace that does nothing while the console is hidden
Console_backspace_if_shown(self) ==
    IF ~self.shown THEN Ok(self, Unit)
    ELSE LET f == Fork(self)
         IN  IF f.panic THEN f
             ELSE Ok([f.self EXCEPT !.entry = Pop(@)], Unit)

Console_backspace(self) ==
    LET f == Fork(self)
    IN  IF f.panic THEN f
        ELSE Ok([f.self EXCEPT !.entry = Pop(@)], Unit)

\* clear that also leaves the history entry being browsed
Console_clear_resets_cursor(self) ==
    Ok([self EXCEPT !.entry = <<>>, !.cursor = None], Unit)

Console_clear(self) == Ok([self EXCEPT !.entry = <<>>], Unit)

Console_clear_history(self) == Ok([self EXCEPT !.history = <<>>], Unit)

\* up() that compares the cursor with len instead of len - 1
Console_up_off_by_one(self, checks) ==
    IF self.cursor = None THEN Ok([self EXCEPT !.cursor = Some(0)], TRUE)
    ELSE IF self.cursor[1] < Len(self.history)
         THEN Ok([self EXCEPT !.cursor = Some(@[1] + 1)], TRUE)
         ELSE Ok(self, FALSE)

\* self.history.len() - 1 on usize: with an empty history the subtraction
\* overflows; a build with overflow checks panics, a build without wraps to
\* usize::MAX, which every cursor the model reaches is below
Console_up(self, checks) ==
    IF self.cursor = None THEN Ok([self EXCEPT !.cursor = Some(0)], TRUE)
    ELSE IF Len(self.history) = 0
         THEN IF checks THEN Panic(self)
              ELSE Ok([self EXCEPT !.cursor = Some(@[1] + 1)], TRUE)
         ELSE IF self.cursor[1] < Len(self.history) - 1
              THEN Ok([self EXCEPT !.cursor = Some(@[1] + 1)], TRUE)
              ELSE Ok(self, FALSE)

\* down() that wraps from the live entry round to the oldest entry
Console_down_wraparound(self) ==
    IF is_some(self.cursor) /\ self.cursor[1] > 0
    THEN Ok([self EXCEPT !.cursor = Some(@[1] - 1)], TRUE)
    ELSE IF is_some(self.cursor) \/ self.history = <<>>
         THEN Ok([self EXCEPT !.cursor = None], is_some(self.cursor))
         ELSE Ok([self EXCEPT !.cursor = Some(Len(self.history) - 1)], TRUE)

\* down() that, arriving at the live entry, leaves the text it was browsing
\* in the entry field
Console_down_keeps_browsed(self) ==
    IF is_some(self.cursor) /\ self.cursor[1] > 0
    THEN Ok([self EXCEPT !.cursor = Some(@[1] - 1)], TRUE)
    ELSE IF is_some(self.cursor) /\ self.cursor[1] < Len(self.history)
         THEN Ok([self EXCEPT !.cursor = None,
                              !.entry = self.history[self.cursor[1] + 1]], TRUE)
         ELSE Ok([self EXCEPT !.cursor = None], is_some(self.cursor))

Console_down(self) ==
    IF is_some(self.cursor) /\ self.cursor[1] > 0
    THEN Ok([self EXCEPT !.cursor = Some(@[1] - 1)], TRUE)
    ELSE Ok([self EXCEPT !.cursor = None], is_some(self.cursor))

\* while self.up() && self.entry() == starting_entry {}
RECURSIVE up_while(_, _, _)
up_while(self, starting_entry, checks) ==
    LET u == Console_up(self, checks)
    IN  IF u.panic THEN u
        ELSE IF ~u.ret THEN u
        ELSE LET e == Console_entry(u.self)
             IN  IF e.panic THEN Panic(u.self)
                 ELSE IF e.ret = starting_entry
                      THEN up_while(u.self, starting_entry, checks)
                      ELSE u

Console_up_deduped(self, checks) ==
    LET s == Console_entry(self)
    IN  IF s.panic THEN Panic(self)
        ELSE LET w == up_while(self, s.ret, checks)
             IN  IF w.panic THEN w
                 ELSE LET e == Console_entry(w.self)
                      IN  IF e.panic THEN Panic(w.self)
                          ELSE Ok(w.self, s.ret # e.ret)

\* while self.down() && self.entry() == starting_entry {}
RECURSIVE down_while(_, _)
down_while(self, starting_entry) ==
    LET d == Console_down(self)
    IN  IF ~d.ret THEN d
        ELSE LET e == Console_entry(d.self)
             IN  IF e.panic THEN Panic(d.self)
                 ELSE IF e.ret = starting_entry
                      THEN down_while(d.self, starting_entry)
                      ELSE d

\* down_deduped that takes one step of down() whatever the text it lands on
Console_down_deduped_one_step(self) ==
    LET s == Console_entry(self)
    IN  IF s.panic THEN Panic(self)
        ELSE LET w == Console_down(self)
                 e == Console_entry(w.self)
             IN  IF e.panic THEN Panic(w.self)
                 ELSE Ok(w.self, s.ret # e.ret)

Console_down_deduped(self) ==
    LET s == Console_entry(self)
    IN  IF s.panic THEN Panic(self)
        ELSE LET w == down_while(self, s.ret)
             IN  IF w.panic THEN w
                 ELSE LET e == Console_entry(w.self)
                      IN  IF e.panic THEN Panic(w.self)
                          ELSE Ok(w.self, s.ret # e.ret)

Console_shown(self) == Ok(self, self.shown)
Console_show(self) == Ok([self EXCEPT !.shown = TRUE], Unit)
Console_hide(self) == Ok([self EXCEPT !.shown = FALSE], Unit)
Console_toggle_shown(self) == Ok([self EXCEPT !.shown = ~@], Unit)

\* the call of method o with argument a on the enabled console
Invoke(o, a, self, checks) ==
    CASE o = "entry" -> Console_entry(self)
      [] o = "shown" -> Console_shown(self)
      [] o = "history" -> Console_history(self)
      [] o = "history_deduped" -> Console_history_deduped(self)
      [] o = "history_len" -> Ok(self, Console_history_len(self))
      [] o = "confirm" -> Console_confirm(self)
      [] o = "set_entry" -> Console_set_entry(self, a)
      [] o = "receive_char" -> Console_receive_char(self, a)
      [] o = "receive_text" -> Console_receive_text(self, a)
      [] o = "receive_char_if" -> Console_receive_char_if(self, a[1], a[2])
      [] o = "receive_text_if" -> Console_receive_text_if(self, a[1], a[2])
      [] o = "backspace" -> Console_backspace(self)
      [] o = "clear" -> Console_clear(self)
      [] o = "clear_history" -> Console_clear_history(self)
      [] o = "up" -> Console_up(self, checks)
      [] o = "up_deduped" -> Console_up_deduped(self, checks)
      [] o = "down" -> Console_down(self)
      [] o = "down_deduped" -> Console_down_deduped(self)
      [] o = "show" -> Console_show(self)
      [] o = "hide" -> Console_hide(self)
      [] o = "toggle_shown" -> Console_toggle_shown(self)

\* ------------------------------------------------- methods, disabled build

\* The console of a build without debug_assertions and without force-enabled
\* has no fields: every method leaves it alone and returns a default.  It has
\* no receive_text and no receive_text_if.
Stub_confirm(self) == Ok(self, Parse(<<>>))
Stub_entry(self) == Ok(self, <<>>)
Stub_history_len(self) == 0
Stub_history(self) == Ok(self, <<>>)
Stub_history_deduped(self) == Ok(self, <<>>)
Stub_shown(self) == Ok(self, FALSE)
Stub_set_entry(self, text) == Ok(self, Unit)
Stub_receive_char(self, ch) == Ok(self, Unit)
\* a stub that still reports what the filter said
Stub_receive_char_if_accepts(self, ch, accept) == Ok(self, accept)

Stub_receive_char_if(self, ch, accept) == Ok(self, FALSE)
Stub_backspace(self) == Ok(self, Unit)
Stub_clear(self) == Ok(self, Unit)
Stub_clear_history(self) == Ok(self, Unit)
Stub_up(self) == Ok(self, FALSE)
Stub_down(self) == Ok(self, FALSE)
Stub_up_deduped(self) == Ok(self, FALSE)
Stub_down_deduped(self) == Ok(self, FALSE)
Stub_show(self) == Ok(self, Unit)
Stub_hide(self) == Ok(self, Unit)
Stub_toggle_shown(self) == Ok(self, Unit)

\* ------------------------------------------------------------------ actions

\* whether the build traps arithmetic overflow: the debug profile does, the
\* release profile (with force-enabled) wraps
OverflowChecks == BOOLEAN

NoStreak == [of |-> "", from |-> None, n |-> 0]

\* the calls of up() (of down()) made in a row, and the cursor they began at
NextStreak(o) ==
    IF o \in {"up", "down"}
    THEN IF streak.of = o
         THEN [streak EXCEPT !.n = @ + 1]
         ELSE [of |-> o, from |-> cursor, n |-> 1]
    ELSE NoStreak

\* the methods of navigation
Navigation == {"up", "down", "up_deduped", "down_deduped"}

\* Whether clear() was called with a cursor set and nothing but down() has
\* been called since
NextCleared(o) ==
    /\ enabled
    /\ \/ o = "clear" /\ is_some(cursor)
       \/ o = "down" /\ cleared

NoTrip == [stack |-> <<>>, downs |-> 0, expect |-> None]

\* The calls of up_deduped that returned true, in a row, then the calls of
\* down_deduped that follow them at once: stack holds the text displayed
\* before each of those up_deduped calls that no down_deduped has answered
\* yet, downs counts the down_deduped calls, and expect is the text
\* displayed before the up_deduped call that the last down_deduped answers
NextTrip(o, res) ==
    IF ~enabled \/ res.panic THEN NoTrip
    ELSE IF o = "up_deduped" /\ res.ret
         THEN [stack |-> (IF trip.downs = 0 THEN trip.stack ELSE <<>>)
                            \o <<Console_entry(Self).ret>>,
               downs |-> 0, expect |-> None]
    ELSE IF o = "down_deduped" /\ trip.stack # <<>>
         THEN [stack |-> SubSeq(trip.stack, 1, Len(trip.stack) - 1),
               downs |-> trip.downs + 1,
               expect |-> Some(trip.stack[Len(trip.stack)])]
    ELSE NoTrip

\* The run of navigation calls made in a row: the entry field of the Live
\* console the run passed first, None while it has passed none.  Any other
\* call ends the run.
NextDraft(o) ==
    IF enabled /\ o \in Navigation
    THEN IF is_some(draft) THEN draft
         ELSE IF cursor = None THEN Some(entry) ELSE None
    ELSE None

\* the fragment a call of receive_char or receive_text appends
Fragment(o, a) == IF o = "receive_char" THEN <<a>> ELSE a

\* The run of receive_char / receive_text calls on the Live console: the
\* entry it began with and the fragments received since, in call order.  Any
\* other call, and a receive call that begins while browsing, ends the run:
\* the next one begins with the entry that call leaves.
NextTyped(o, a, res) ==
    IF enabled /\ o \in {"receive_char", "receive_text"}
            /\ cursor = None /\ ~res.panic
    THEN [typed EXCEPT !.frags = @ \o Fragment(o, a)]
    ELSE [base |-> res.self.entry, frags |-> <<>>]

RECURSIVE SumLen(_)
SumLen(h) == IF h = <<>> THEN 0 ELSE Len(Head(h)) + SumLen(Tail(h))

\* the characters a console holds
Stored(self) == Len(self.entry) + SumLen(self.history)

\* A call of method o with argument a whose outcome is res, while the
\* console stays within the bounds
Call(o, a, res) ==
    LET r == res
    IN  /\ ~panicked
        /\ Stored(r.self) <= MaxChars
        /\ Len(r.self.history) <= MaxHist
        /\ op' = o
        /\ arg' = a
        /\ ret' = r.ret
        /\ pre' = Self
        /\ panicked' = r.panic
        /\ shown' = r.self.shown
        /\ entry' = r.self.entry
        /\ history' = r.self.history
        /\ cursor' = r.self.cursor
        /\ streak' = NextStreak(o)
        /\ typed' = NextTyped(o, a, r)
        /\ cleared' = NextCleared(o)
        /\ trip' = NextTrip(o, r)
        /\ draft' = NextDraft(o)
        /\ UNCHANGED enabled

entry_call ==
    \/ enabled /\ Call("entry", Unit, Console_entry(Self))
    \/ ~enabled /\ Call("entry", Unit, Stub_entry(Self))

shown_call ==
    \/ enabled /\ Call("shown", Unit, Console_shown(Self))
    \/ ~enabled /\ Call("shown", Unit, Stub_shown(Self))

history_call ==
    \/ enabled /\ Call("history", Unit, Console_history(Self))
    \/ ~enabled /\ Call("history", Unit, Stub_history(Self))

history_deduped_call ==
    \/ enabled /\ Call("history_deduped", Unit, Console_history_deduped(Self))
    \/ ~enabled /\ Call("history_deduped", Unit, Stub_history_deduped(Self))

history_len_call ==
    \/ enabled /\ Call("history_len", Unit, Ok(Self, Console_history_len(Self)))
    \/ ~enabled /\ Call("history_len", Unit, Ok(Self, Stub_history_len(Self)))

confirm ==
    \/ enabled /\ Call("confirm", Unit, Console_confirm(Self))
    \/ ~enabled /\ Call("confirm", Unit, Stub_confirm(Self))

set_entry ==
    \E text \in Texts :
        \/ enabled /\ Call("set_entry", text, Console_set_entry(Self, text))
        \/ ~enabled /\ Call("set_entry", text, Stub_set_entry(Self, text))

receive_char ==
    \E ch \in Chars :
        \/ enabled /\ Call("receive_char", ch, Console_receive_char(Self, ch))
        \/ ~enabled /\ Call("receive_char", ch, Stub_receive_char(Self, ch))

receive_text ==
    /\ enabled
    /\ \E text \in Texts :
        Call("receive_text", text, Console_receive_text(Self, text))

receive_char_if ==
    \E ch \in Chars, accept \in BOOLEAN :
        \/ /\ enabled
           /\ Call("receive_char_if", <<ch, accept>>,
                   Console_receive_char_if(Self, ch, accept))
        \/ /\ ~enabled
           /\ Call("receive_char_if", <<ch, accept>>,
                   Stub_receive_char_if(Self, ch, accept))

receive_text_if ==
    /\ enabled
    /\ \E text \in Texts, accept \in BOOLEAN :
        Call("receive_text_if", <<text, accept>>,
             Console_receive_text_if(Self, text, accept))

backspace ==
    \/ enabled /\ Call("backspace", Unit, Console_backspace(Self))
    \/ ~enabled /\ Call("backspace", Unit, Stub_backspace(Self))

clear ==
    \/ enabled /\ Call("clear", Unit, Console_clear(Self))
    \/ ~enabled /\ Call("clear", Unit, Stub_clear(Self))

clear_history ==
    \/ enabled /\ Call("clear_history", Unit, Console_clear_history(Self))
    \/ ~enabled /\ Call("clear_history", Unit, Stub_clear_history(Self))

\* up() is counted up to MaxStreak calls in a row, and the cursor of a build
\* that wraps on overflow is kept within MaxHist
up ==
    \/ /\ enabled
       /\ streak.of = "up" => streak.n < MaxStreak
       /\ is_some(cursor) => cursor[1] < MaxHist
       /\ \E checks \in OverflowChecks :
            Call("up", Unit, Console_up(Self, checks))
    \/ /\ ~enabled
       /\ streak.of = "up" => streak.n < MaxStreak
       /\ Call("up", Unit, Stub_up(Self))

up_deduped ==
    \/ /\ enabled
       /\ \E checks \in OverflowChecks :
            Call("up_deduped", Unit, Console_up_deduped(Self, checks))
    \/ ~enabled /\ Call("up_deduped", Unit, Stub_up_deduped(Self))

down ==
    \/ /\ enabled
       /\ streak.of = "down" => streak.n < MaxStreak
       /\ Call("down", Unit, Console_down(Self))
    \/ /\ ~enabled
       /\ streak.of = "down" => streak.n < MaxStreak
       /\ Call("down", Unit, Stub_down(Self))

down_deduped ==
    \/ enabled /\ Call("down_deduped", Unit, Console_down_deduped(Self))
    \/ ~enabled /\ Call("down_deduped", Unit, Stub_down_deduped(Self))

show ==
    \/ enabled /\ Call("show", Unit, Console_show(Self))
    \/ ~enabled /\ Call("show", Unit, Stub_show(Self))

hide ==
    \/ enabled /\ Call("hide", Unit, Console_hide(Self))
    \/ ~enabled /\ Call("hide", Unit, Stub_hide(Self))

toggle_shown ==
    \/ enabled /\ Call("toggle_shown", Unit, Console_toggle_shown(Self))
    \/ ~enabled /\ Call("toggle_shown", Unit, Stub_toggle_shown(Self))

\* ------------------------------------------------------------------ spec

Init ==
    /\ enabled \in BOOLEAN
    /\ shown = Console_default.shown
    /\ entry = Console_default.entry
    /\ history = Console_default.history
    /\ cursor = Console_default.cursor
    /\ panicked = FALSE
    /\ op = "new"
    /\ arg = Unit
    /\ ret = Unit
    /\ pre = Console_default
    /\ streak = NoStreak
    /\ typed = [base |-> Console_default.entry, frags |-> <<>>]
    /\ cleared = FALSE
    /\ trip = NoTrip
    /\ draft = None

Next ==
    \/ entry_call
    \/ shown_call
    \/ history_call
    \/ history_deduped_call
    \/ history_len_call
    \/ confirm
    \/ set_entry
    \/ receive_char
    \/ receive_text
    \/ receive_char_if
    \/ receive_text_if
    \/ backspace
    \/ clear
    \/ clear_history
    \/ up
    \/ up_deduped
    \/ down
    \/ down_deduped
    \/ show
    \/ hide
    \/ toggle_shown

Spec == Init /\ [][Next]_vars

\* ------------------------------------------------------------------ claims

\* the states of the console: Live, or Browsing(n) with n an index of the history
Live(self) == self.cursor = None
Browsing(self) == is_some(self.cursor) /\ self.cursor[1] < Len(self.history)

\* the last call was of method o on the enabled console
Called(o) == enabled /\ op = o

\* C1: in every reachable state, if Cursor = Some(n) then 0 <= n < length(HistoryList)
C1_CursorInRange ==
    enabled /\ is_some(cursor) => 0 <= cursor[1] /\ cursor[1] < Len(history)

\* C2: every operation other than confirm is total: no call of it fails
C2_Total ==
    enabled /\ op # "confirm" => ~panicked

\* C3: up() in Live: with a non-empty history the console is in Browsing(0)
\* and up() returned true; with an empty history it stays Live and up()
\* returned false
C3_UpFromLive ==
    Called("up") /\ Live(pre) =>
        /\ ~panicked
        /\ IF pre.history # <<>>
           THEN cursor = Some(0) /\ ret = TRUE
           ELSE cursor = None /\ ret = FALSE
\* the text a console in Browsing(n) displays
Browsed(self) == self.history[self.cursor[1] + 1]

\* C4: up() in Browsing(n) moves to Browsing(n+1) and returns true when
\* n+1 < history length, otherwise leaves the cursor at n and returns false;
\* with a history of length L >= 1, after more than L calls of up() in a row
\* from Live the cursor is at L-1, and up() left it there and returned false
C4_UpWhileBrowsing ==
    /\ Called("up") /\ Browsing(pre) =>
        /\ ~panicked
        /\ IF pre.cursor[1] + 1 < Len(pre.history)
           THEN cursor = Some(pre.cursor[1] + 1) /\ ret = TRUE
           ELSE cursor = pre.cursor /\ ret = FALSE
    /\ Called("up") /\ streak.from = None /\ Len(history) >= 1
            /\ streak.n > Len(history) =>
        /\ ~panicked
        /\ cursor = Some(Len(history) - 1)
        /\ cursor = pre.cursor
        /\ ret = FALSE

\* C4 happens: a history of two entries or more, and more calls of up() in a
\* row from Live than it has entries
C4_Witness ==
    /\ Called("up") /\ streak.from = None
    /\ Len(history) >= 2 /\ streak.n > Len(history)
    /\ Browsing(pre) /\ ret = FALSE

\* C5: down() in Browsing(n), n > 0, moves to Browsing(n-1) and returns true;
\* in Browsing(0) it moves to Live and returns true; in Live it stays and
\* returns false; from Browsing(n), after n+1 calls of down() in a row or
\* more the console is in Live
C5_Down ==
    /\ Called("down") =>
        /\ ~panicked
        /\ IF is_some(pre.cursor) /\ pre.cursor[1] > 0
           THEN cursor = Some(pre.cursor[1] - 1) /\ ret = TRUE
           ELSE IF pre.cursor = Some(0)
                THEN cursor = None /\ ret = TRUE
                ELSE cursor = None /\ ret = FALSE
    /\ Called("down") /\ is_some(streak.from)
            /\ streak.n >= streak.from[1] + 1 =>
        cursor = None

\* C5 happens: calls of down() in a row from Browsing(1), two to reach Live
\* and one more that stays there
C5_Witness ==
    /\ Called("down") /\ streak.from = Some(1) /\ streak.n = 3
    /\ Len(history) >= 2
    /\ Live(pre) /\ cursor = None /\ ret = FALSE

\* text is s without its last character (s itself when s is empty)
LastRemoved(text, s) ==
    IF s = <<>> THEN text = <<>> ELSE Append(text, s[Len(s)]) = s

\* C6: an edit in Browsing(n) leaves the console Live with the entry equal
\* to HistoryList[n] with the edit applied
C6_ForkOnEdit ==
    enabled /\ Browsing(pre) =>
        /\ op = "receive_char" =>
            ~panicked /\ cursor = None /\ entry = Append(Browsed(pre), arg)
        /\ op = "receive_text" =>
            ~panicked /\ cursor = None /\ entry = Browsed(pre) \o arg
        /\ op = "receive_char_if" =>
            (arg[2] => ~panicked /\ cursor = None
                        /\ entry = Append(Browsed(pre), arg[1]))
        /\ op = "receive_text_if" =>
            (arg[2] => ~panicked /\ cursor = None
                        /\ entry = Browsed(pre) \o arg[1])
        /\ op = "backspace" =>
            ~panicked /\ cursor = None /\ LastRemoved(entry, Browsed(pre))

\* C6 happens: a character received while browsing an entry that differs
\* from the entry field, neither of them empty
C6_Witness ==
    /\ Called("receive_char") /\ Browsing(pre)
    /\ pre.entry # <<>> /\ Browsed(pre) # <<>> /\ pre.entry # Browsed(pre)
    /\ entry = Append(Browsed(pre), arg)

\* C7: every operation other than confirm and clear_history leaves the
\* history unchanged; confirm pushes one entry at the front and moves the
\* entry at index i to index i+1
C7_HistoryImmutable ==
    enabled =>
        /\ op \notin {"confirm", "clear_history"} => history = pre.history
        /\ op = "confirm" =>
            IF panicked THEN history = pre.history
            ELSE /\ Len(history) = Len(pre.history) + 1
                 /\ \A i \in 1..Len(pre.history) : history[i + 1] = pre.history[i]

\* C7 happens: confirm on a history of two different entries
C7_Witness ==
    /\ Called("confirm") /\ ~panicked
    /\ Len(pre.history) = 2 /\ pre.history[1] # pre.history[2]
    /\ pre.entry # pre.history[1]

\* C8: confirm, in Live or in Browsing, with the parse a success or a
\* failure, increases history_len() by 1, resets the cursor to None and
\* leaves the entry empty, so that entry() returns the empty text
C8_ConfirmPostState ==
    Called("confirm") /\ (Live(pre) \/ Browsing(pre)) =>
        /\ ~panicked
        /\ Console_history_len(Self) = Console_history_len(pre) + 1
        /\ cursor = None
        /\ entry = <<>>
        /\ Console_entry(Self) = Ok(Self, <<>>)

\* C8 happens: confirm in Browsing of a text that does not parse
C8_Witness ==
    /\ Called("confirm") /\ Browsing(pre)
    /\ ~ret.ok /\ Browsed(pre) # <<>>

\* C9: confirm returns the parse of the text entry() displayed before the
\* call, and pushes the entry field as it was before the call to the front
\* of the history
C9_ConfirmParsesDisplayedPushesEntry ==
    Called("confirm") /\ (Live(pre) \/ Browsing(pre)) =>
        /\ ~panicked
        /\ ret = Parse(Console_entry(pre).ret)
        /\ history[1] = pre.entry

\* C9 happens: confirm in Browsing(n) where the entry field and
\* HistoryList[n] differ: the first is pushed, the second parsed
C9_Witness ==
    /\ Called("confirm") /\ Browsing(pre)
    /\ pre.entry # Browsed(pre)
    /\ ret.ok /\ ret.val = Browsed(pre)
    /\ history[1] = pre.entry /\ history[1] # Browsed(pre)

\* C10: the entry confirm places at the front of the history is the text
\* entry() displayed, and confirm parsed, before the call
C10_HistoryHoldsConfirmedText ==
    Called("confirm") /\ (Live(pre) \/ Browsing(pre)) =>
        /\ ~panicked
        /\ history[1] = Console_entry(pre).ret

\* C11: clear_history leaves the console with an empty history and
\* Cursor = None, also when it is called in Browsing(n)
C11_ClearHistoryResetsCursor ==
    Called("clear_history") /\ (Live(pre) \/ Browsing(pre)) =>
        ~panicked /\ history = <<>> /\ cursor = None

\* C14: set_entry(text) replaces the entry with text and leaves the console
\* Live, from Live and from Browsing(n) alike: entry() returns text, the
\* browsed text is discarded, the history is unchanged
C14_SetEntry ==
    Called("set_entry") =>
        /\ ~panicked
        /\ entry = arg
        /\ cursor = None
        /\ history = pre.history
        /\ Console_entry(Self) = Ok(Self, arg)

\* C14 happens: set_entry in Browsing(n) of a text that is neither the
\* browsed text nor the entry field
C14_Witness ==
    /\ Called("set_entry") /\ Browsing(pre)
    /\ Browsed(pre) # <<>> /\ Browsed(pre) # arg /\ pre.entry # arg
    /\ arg # <<>>

\* C16: receive_char_if and receive_text_if return the filter's result; when
\* it rejects the console is unchanged, when it accepts the console is the
\* one receive_char / receive_text leaves from the same state
C16_FilteredReceive ==
    enabled /\ (Live(pre) \/ Browsing(pre)) =>
        /\ op = "receive_char_if" =>
            /\ ~panicked
            /\ ret = arg[2]
            /\ IF arg[2]
               THEN Self = Console_receive_char(pre, arg[1]).self
               ELSE Self = pre
        /\ op = "receive_text_if" =>
            /\ ~panicked
            /\ ret = arg[2]
            /\ IF arg[2]
               THEN Self = Console_receive_text(pre, arg[1]).self
               ELSE Self = pre

\* C16 happens: a character rejected in Browsing(n), the entry field and the
\* browsed text different
C16_Witness ==
    /\ Called("receive_char_if") /\ Browsing(pre)
    /\ ~arg[2] /\ ret = FALSE
    /\ pre.entry # Browsed(pre) /\ cursor = pre.cursor

\* the indices of the history that begin a run of equal adjacent entries
RunStarts(h) == {i \in 1..Len(h) : i = 1 \/ h[i] # h[i - 1]}

\* the k-th smallest element of a set of numbers
Nth(S, k) == CHOOSE i \in S : Cardinality({j \in S : j <= i}) = k

\* C18: history_deduped() never yields two consecutive equal texts, and
\* yields the history with each run of adjacent equal entries collapsed to
\* one entry, newest first; history() yields the history itself
C18_HistoryDeduped ==
    /\ Called("history") => ~panicked /\ ret = history
    /\ Called("history_deduped") =>
        /\ ~panicked
        /\ \A i \in 1..Len(ret) - 1 : ret[i] # ret[i + 1]
        /\ Len(ret) = Cardinality(RunStarts(history))
        /\ \A k \in 1..Len(ret) : ret[k] = history[Nth(RunStarts(history), k)]
        /\ Self = pre

\* C18 happens: a history of three entries, the two newest equal and the
\* oldest different, of which two are yielded
C18_Witness ==
    /\ Called("history_deduped")
    /\ Len(history) = 3 /\ history[1] = history[2] /\ history[2] # history[3]
    /\ ret = <<history[1], history[3]>>

\* C20: in the disabled build, after any sequence of operations, every query
\* returns its default, every navigation and filtered-receive call returns
\* false, confirm returns the parse of the empty text, and no call fails or
\* changes anything
C20_DisabledBuild ==
    ~enabled =>
        /\ ~panicked
        /\ Self = Console_default
        /\ op = "entry" => ret = <<>>
        /\ op = "history" => ret = <<>>
        /\ op = "history_deduped" => ret = <<>>
        /\ op = "history_len" => ret = 0
        /\ op = "shown" => ret = FALSE
        /\ op \in Navigation => ret = FALSE
        /\ op = "receive_char_if" => ret = FALSE
        /\ op = "confirm" => ret = Parse(<<>>)

\* C20 happens: in the disabled build, a character its filter accepts is
\* reported as rejected
C20_Witness ==
    /\ ~enabled /\ op = "receive_char_if" /\ arg[2] /\ ret = FALSE
    /\ entry = <<>>

\* the console with the visibility flag negated
Flipped(self) == [self EXCEPT !.shown = ~@]

\* the methods that set the visibility flag
Visibility == {"show", "hide", "toggle_shown"}

\* C19: show, hide and toggle_shown change the flag only (to true, to false,
\* to its negation); every other operation leaves the flag unchanged, and
\* called on the same console with the flag negated it returns the same
\* value (shown(), which reads the flag, apart) and leaves the same console,
\* the flag apart
C19_VisibilityIndependent ==
    enabled =>
        /\ op \in Visibility =>
            /\ ~panicked
            /\ entry = pre.entry /\ history = pre.history /\ cursor = pre.cursor
            /\ op = "show" => shown = TRUE
            /\ op = "hide" => shown = FALSE
            /\ op = "toggle_shown" => shown = ~pre.shown
        /\ op \notin Visibility \cup {"new"} =>
            /\ shown = pre.shown
            /\ \E checks \in OverflowChecks :
                LET r == Invoke(op, arg, Flipped(pre), checks)
                IN  /\ r.panic = panicked
                    /\ r.self = Flipped(Self)
                    /\ ~panicked /\ op # "shown" => r.ret = ret

\* C19 happens: a backspace on the hidden console in Browsing(n) that removes
\* a character
C19_Witness ==
    /\ Called("backspace") /\ ~pre.shown /\ Browsing(pre)
    /\ Browsed(pre) # <<>> /\ entry # Browsed(pre) /\ cursor = None

\* C17: after a run of receive_char / receive_text calls that began on a Live
\* console, entry() returns the entry the run began with followed by the
\* fragments in call order; backspace on a Live console removes the last
\* character of the entry, and changes nothing when the entry is empty
C17_Concatenation ==
    /\ enabled /\ op \in {"receive_char", "receive_text"} /\ Live(pre) =>
        /\ ~panicked
        /\ Console_entry(Self) = Ok(Self, typed.base \o typed.frags)
        /\ history = pre.history
    /\ Called("backspace") /\ Live(pre) =>
        /\ ~panicked
        /\ cursor = None
        /\ LastRemoved(entry, pre.entry)
        /\ pre.entry = <<>> => Self = pre

\* C17 happens: a text received after another fragment on an entry that was
\* not empty when the run began
C17_Witness ==
    /\ Called("receive_text") /\ Live(pre)
    /\ typed.base # <<>> /\ arg # <<>>
    /\ typed.frags # arg /\ Len(typed.frags) > Len(arg)
    /\ entry = typed.base \o typed.frags

\* C15: clear() empties the entry field and changes nothing else; called in
\* Browsing(n), entry() still returns HistoryList[n]; and once down() has
\* brought the console back to Live, entry() returns the empty text
C15_Clear ==
    /\ Called("clear") =>
        /\ ~panicked
        /\ entry = <<>>
        /\ cursor = pre.cursor /\ history = pre.history /\ shown = pre.shown
    /\ Called("clear") /\ Browsing(pre) =>
        Console_entry(Self) = Ok(Self, Browsed(pre))
    /\ Called("down") /\ cleared /\ cursor = None =>
        ~panicked /\ Console_entry(Self) = Ok(Self, <<>>)

\* C15 happens: clear() was called while browsing, and down() has left the
\* newest entry, which is not empty, for the Live console
C15_Witness ==
    /\ Called("down") /\ cleared
    /\ pre.cursor = Some(0) /\ Browsing(pre) /\ Browsed(pre) # <<>>
    /\ cursor = None /\ ret = TRUE

\* the position a console displays: -1 for the entry field, n for HistoryList[n]
Pos(self) == IF self.cursor = None THEN -1 ELSE self.cursor[1]

\* the text at a position
TextAt(self, q) == IF q = -1 THEN self.entry ELSE self.history[q + 1]

\* the cursor that displays a position
CursorAt(q) == IF q = -1 THEN None ELSE Some(q)

\* the older (the newer) positions whose text differs from the displayed one
OlderDiffering(self) ==
    {q \in Pos(self) + 1..Len(self.history) - 1 :
        TextAt(self, q) # TextAt(self, Pos(self))}
NewerDiffering(self) ==
    {q \in -1..Pos(self) - 1 : TextAt(self, q) # TextAt(self, Pos(self))}

Min(S) == CHOOSE x \in S : \A y \in S : x <= y
Max(S) == CHOOSE x \in S : \A y \in S : x >= y

\* C12: up_deduped (down_deduped) applies up (down) while the displayed text
\* equals the one displayed at the start, and stops at the first text that
\* differs or when up (down) reports no movement; it returns true iff
\* entry() differs from what it was.  A call that returns true lands on the
\* nearest older (newer) position whose text differs; one that returns false
\* is left where up (down) stops moving: the oldest entry, or Live with an
\* empty history (Live)
C12_DedupedNavigation ==
    /\ Called("up_deduped") /\ (Live(pre) \/ Browsing(pre)) =>
        /\ ~panicked
        /\ entry = pre.entry /\ history = pre.history /\ shown = pre.shown
        /\ Live(Self) \/ Browsing(Self)
        /\ ret = (Console_entry(Self).ret # Console_entry(pre).ret)
        /\ IF OlderDiffering(pre) # {}
           THEN ret = TRUE /\ cursor = CursorAt(Min(OlderDiffering(pre)))
           ELSE /\ ret = FALSE
                /\ cursor = CursorAt(Len(pre.history) - 1)
    /\ Called("down_deduped") /\ (Live(pre) \/ Browsing(pre)) =>
        /\ ~panicked
        /\ entry = pre.entry /\ history = pre.history /\ shown = pre.shown
        /\ ret = (Console_entry(Self).ret # Console_entry(pre).ret)
        /\ IF NewerDiffering(pre) # {}
           THEN ret = TRUE /\ cursor = CursorAt(Max(NewerDiffering(pre)))
           ELSE ret = FALSE /\ cursor = None

\* C13: after k calls of up_deduped that each returned true, followed at
\* once by k calls of down_deduped, entry() returns what it returned before
\* the first of the up_deduped calls, for every k >= 1
C13_DedupedRoundTrip ==
    Called("down_deduped") /\ is_some(trip.expect) =>
        /\ ~panicked
        /\ Console_entry(Self) = Ok(Self, trip.expect[1])

\* C13 happens: two calls of up_deduped, one of them over two equal entries,
\* answered by two calls of down_deduped that end on the Live console
C13_Witness ==
    /\ Called("down_deduped") /\ is_some(trip.expect)
    /\ trip.downs = 2 /\ trip.stack = <<>>
    /\ Len(history) = 3 /\ history[1] = history[2] /\ history[2] # history[3]
    /\ cursor = None /\ entry # history[1]

\* C21: up, down, up_deduped and down_deduped change the cursor only, never
\* the entry field, the history or the flag; and when a run of navigation
\* calls that began on a Live console ends on a Live console, entry() returns
\* the entry field of the console the run began on
C21_NavigationKeepsDraft ==
    enabled /\ op \in Navigation =>
        /\ entry = pre.entry /\ history = pre.history /\ shown = pre.shown
        /\ is_some(draft) /\ cursor = None =>
            /\ ~panicked
            /\ Console_entry(Self) = Ok(Self, draft[1])

\* C21 happens: from a Live console with text in its entry field, navigation
\* calls alone lead up the history and then, by two calls of down() in a row,
\* back to Live from an entry that differs from that text
C21_Witness ==
    /\ Called("down") /\ streak.n = 2 /\ ret = TRUE
    /\ Browsing(pre) /\ cursor = None
    /\ is_some(draft) /\ draft[1] # <<>> /\ Browsed(pre) # draft[1]

====
